---- MODULE Spec2Model ----
(***************************************************************************)
(* Model of src/src/main.cpp: the five instrumented sorting algorithms     *)
(* (bubble_sort, shaker_sort, selection_sort, insertion_sort, quicksort),  *)
(* the draw_array observer they call after writes, the benchmark harness   *)
(* that wraps one call, and the stage loop of main that shuffles the       *)
(* vector and benchmarks one algorithm per stage.                          *)
(*                                                                         *)
(* Positions are 0-based offsets from vec.begin(); main calls every        *)
(* algorithm with first = 0 and last = vec.size().  Every statement that   *)
(* writes the vector and every                                            *)
(* draw_array call is a step of its own, so that what the observer sees    *)
(* and what lies between two writes can be stated.                         *)
(* Iterator arithmetic that leaves [first, last] without dereferencing     *)
(* (first + 1 on an empty range, right_border - 1 at first) is modelled    *)
(* as integer arithmetic, which is what a pointer-backed vector iterator   *)
(* does.                                                                   *)
(***************************************************************************)
EXTENDS Integers, Sequences, FiniteSets, TLC

\* ------------------------------------------------------------------ bounds
MaxLen == 4
MaxVal == 3

\* case 5 is the last stage of main's switch
LastStage == 5

\* ----------------------------------------------------------------- helpers
Vals == 1..MaxVal

Size(v) == Cardinality(DOMAIN v)

FromSeq(s) == [k \in 0..(Len(s) - 1) |-> s[k + 1]]

Range(v) == {v[k] : k \in DOMAIN v}

Count(v, x) == Cardinality({k \in DOMAIN v : v[k] = x})

IsPerm(a, b) ==
    /\ DOMAIN a = DOMAIN b
    /\ \A x \in Range(a) \cup Range(b) : Count(a, x) = Count(b, x)

IsSorted(v) == \A k \in DOMAIN v : (k + 1) \in DOMAIN v => v[k] <= v[k + 1]

\* the two concrete scenarios of the specification
Scenarios == {FromSeq(<<5, 3, 4, 1, 2>>), FromSeq(<<2, 1>>)}

Inputs == (UNION {[0..(n - 1) -> Vals] : n \in 0..MaxLen}) \cup Scenarios

\* std::shuffle: any rearrangement of the vector
Shuffles(v) ==
    {w \in [DOMAIN v -> Range(v)] : IsPerm(w, v)}

\* an exchange that forgets the second assignment
SwapLossy(v, p, q) == [v EXCEPT ![p] = v[q]]

\* std::swap(*p, *q)
Swap(v, p, q) == [v EXCEPT ![p] = v[q], ![q] = v[p]]

AlgOf(s) ==
    CASE s = 1 -> "bubble"
      [] s = 2 -> "shaker"
      [] s = 3 -> "selection"
      [] s = 4 -> "insertion"
      [] s = 5 -> "quicksort"
      [] OTHER -> "none"

None == -1

\* ------------------------------------------------------------------- state
VARIABLES
    vec,            \* the std::vector<int> of main
    stage,          \* main's loop variable i
    bench,          \* benchmark: "idle", "timing", "running", "returned", "propagated"
    calls,          \* times benchmark has invoked its callable in this call
    result,         \* value returned by benchmark, None while there is none
    elapsed,        \* clock ticks since benchmark read the start time
    alg,            \* the algorithm the callable runs
    pc,             \* position inside the running algorithm
    input,          \* the vector as it was when the algorithm was called
    first,          \* the algorithm's parameter first, as an offset into vec
    last,           \* the algorithm's parameter last, as an offset into vec
    i,              \* bubble_sort
    current,        \* bubble_sort, shaker_sort, selection_sort
    swapped,        \* bubble_sort
    left_border,    \* shaker_sort
    right_border,   \* shaker_sort
    first_unsorted, \* selection_sort
    smallest,       \* selection_sort
    index,          \* insertion_sort
    inserted_pos,   \* insertion_sort
    current_val,    \* insertion_sort
    stack,          \* quicksort: the activation records, innermost last
    notified,       \* draw_array calls made by this algorithm call
    range,          \* <<first, last>> handed to the latest draw_array call
    writes,         \* exchanges and overwrites made by this algorithm call
    sinceWrite,     \* draw_array calls since the latest write
    unseen,         \* writes since the latest draw_array call
    passes,         \* bubble_sort: passes of the outer loop begun
    passSwaps,      \* bubble_sort: exchanges made in the latest pass
    candidates      \* selection_sort: draw_array calls for a new candidate

locals == <<i, current, swapped, left_border, right_border, first_unsorted,
            smallest, index, inserted_pos, current_val, stack>>

observed == <<notified, range, writes, sinceWrite, unseen, passes, passSwaps,
              candidates>>

\* the range the lambda hands to the algorithm
args == <<first, last>>

harness == <<stage, bench, calls, result, args>>

bubbleVars == <<i, swapped>>

shakerVars == <<left_border, right_border>>

selectionVars == <<first_unsorted, smallest>>

insertionVars == <<index, inserted_pos, current_val>>

counters == <<passes, passSwaps, candidates>>

vars == <<vec, harness, elapsed, alg, pc, input, locals, observed>>

\* ------------------------------------------------------------ initial state
LocalsInit ==
    /\ i = 0
    /\ current = 0
    /\ swapped = FALSE
    /\ left_border = 0
    /\ right_border = 0
    /\ first_unsorted = 0
    /\ smallest = 0
    /\ index = 0
    /\ inserted_pos = 0
    /\ current_val = 0
    /\ stack = <<>>

ObservedInit ==
    /\ notified = 0
    /\ range = <<0, 0>>
    /\ writes = 0
    /\ sinceWrite = 0
    /\ unseen = 0
    /\ passes = 0
    /\ passSwaps = 0
    /\ candidates = 0

Init ==
    /\ vec \in Inputs
    /\ stage = 0
    /\ bench = "idle"
    /\ calls = 0
    /\ result = None
    /\ elapsed = 0
    /\ alg = "none"
    /\ pc = "idle"
    /\ input = vec
    /\ first = 0
    /\ last = Size(vec)
    /\ LocalsInit
    /\ ObservedInit

LocalsReset ==
    /\ i' = 0
    /\ current' = 0
    /\ swapped' = FALSE
    /\ left_border' = 0
    /\ right_border' = 0
    /\ first_unsorted' = 0
    /\ smallest' = 0
    /\ index' = 0
    /\ inserted_pos' = 0
    /\ current_val' = 0
    /\ stack' = <<>>

ObservedReset ==
    /\ notified' = 0
    /\ range' = <<0, 0>>
    /\ writes' = 0
    /\ sinceWrite' = 0
    /\ unseen' = 0
    /\ passes' = 0
    /\ passSwaps' = 0
    /\ candidates' = 0

\* ---------------------------------------------------------------- observer
\* draw_array(f, l, shader, window): reads [f, l), changes nothing
Notify(f, l) ==
    /\ notified' = notified + 1
    /\ range' = <<f, l>>
    /\ sinceWrite' = sinceWrite + 1
    /\ unseen' = 0

\* a std::swap or an assignment through an iterator
Wrote ==
    /\ writes' = writes + 1
    /\ sinceWrite' = 0
    /\ unseen' = unseen + 1

Tick == elapsed' = elapsed + 1

\* ---------------------------------------------------- main and benchmark
\* one case of main's switch: shuffle, then enter benchmark and read the clock
Stage ==
    /\ bench \in {"idle", "returned"}
    /\ stage < LastStage
    /\ stage' = stage + 1
    /\ vec' \in Shuffles(vec)
    /\ input' = vec'
    /\ first' = 0
    /\ last' = Size(vec')
    /\ bench' = "timing"
    /\ calls' = 0
    /\ result' = None
    /\ elapsed' = 0
    /\ alg' = AlgOf(stage + 1)
    /\ pc' = "idle"
    /\ UNCHANGED <<locals, observed>>

\* function(args...): the lambda calls the stage's algorithm
BenchmarkInvoke ==
    /\ bench = "timing"
    /\ bench' = "running"
    /\ calls' = calls + 1
    /\ pc' = "entry"
    /\ Tick
    /\ UNCHANGED <<vec, stage, result, alg, input, args, locals, observed>>

\* the callable returned: read the clock again and return the difference
BenchmarkReturn ==
    /\ bench = "running"
    /\ pc = "done"
    /\ bench' = "returned"
    /\ result' = elapsed
    /\ pc' = "idle"
    /\ input' = vec
    /\ LocalsReset
    /\ ObservedReset
    /\ UNCHANGED <<vec, stage, calls, elapsed, alg, args>>

DrawPcs == {"bubble_draw", "shaker_fwd_draw", "shaker_bwd_draw",
            "sel_cand_draw", "sel_place_draw",
            "ins_shift_draw", "ins_place_draw",
            "qs_scan_draw", "qs_place_draw"}

\* the next statement is a draw_array call: vec is what the observer receives
AtNotification == bench = "running" /\ pc \in DrawPcs

\* a harness that answers a failure by calling again
ObserverRaisesRetried ==
    /\ AtNotification
    /\ pc' = "idle"
    /\ bench' = "timing"
    /\ UNCHANGED <<vec, stage, calls, result, elapsed, alg, input, args, locals,
                   observed>>

\* the callable fails inside a draw_array call; neither the algorithm nor
\* benchmark has a handler, so the failure leaves both
ObserverRaises ==
    /\ AtNotification
    /\ pc' = "aborted"
    /\ bench' = "propagated"
    /\ UNCHANGED <<vec, stage, calls, result, elapsed, alg, input, args, locals,
                   observed>>

\* ------------------------------------------------------------- bubble_sort
\* the comparison turned round
BubbleOutOfOrderReversed(v, c) == v[c] < v[c + 1]

BubbleOutOfOrder(v, c) == v[c] > v[c + 1]

BubbleContinue(it, sw) == it < last /\ sw

BubbleEntry ==
    /\ bench = "running" /\ alg = "bubble" /\ pc = "entry"
    /\ swapped' = TRUE
    /\ i' = first
    /\ pc' = "bubble_outer"
    /\ Tick
    /\ UNCHANGED <<vec, harness, alg, input, observed, current, shakerVars,
                   selectionVars, insertionVars, stack>>

\* a pass that does not clear the swapped flag
BubblePassBeginNoReset ==
    /\ pc = "bubble_outer"
    /\ BubbleContinue(i, swapped)
    /\ current' = first
    /\ passes' = passes + 1
    /\ passSwaps' = 0
    /\ pc' = "bubble_inner"
    /\ Tick
    /\ UNCHANGED <<vec, harness, alg, input, i, swapped, shakerVars,
                   selectionVars, insertionVars, stack, notified, range,
                   writes, sinceWrite, unseen, candidates>>

BubblePassBegin ==
    /\ pc = "bubble_outer"
    /\ BubbleContinue(i, swapped)
    /\ swapped' = FALSE
    /\ current' = first
    /\ passes' = passes + 1
    /\ passSwaps' = 0
    /\ pc' = "bubble_inner"
    /\ Tick
    /\ UNCHANGED <<vec, harness, alg, input, i, shakerVars, selectionVars,
                   insertionVars, stack, notified, range, writes, sinceWrite,
                   unseen, candidates>>

BubbleExit ==
    /\ pc = "bubble_outer"
    /\ ~BubbleContinue(i, swapped)
    /\ pc' = "done"
    /\ Tick
    /\ UNCHANGED <<vec, harness, alg, input, locals, observed>>

BubbleSwap ==
    /\ pc = "bubble_inner"
    /\ current < last - 1 - (i - first)
    /\ BubbleOutOfOrder(vec, current)
    /\ vec' = Swap(vec, current, current + 1)
    /\ swapped' = TRUE
    /\ passSwaps' = passSwaps + 1
    /\ Wrote
    /\ pc' = "bubble_draw"
    /\ Tick
    /\ UNCHANGED <<harness, alg, input, i, current, shakerVars, selectionVars,
                   insertionVars, stack, notified, range, passes, candidates>>

BubbleDraw ==
    /\ bench = "running" /\ pc = "bubble_draw"
    /\ Notify(first, last)
    /\ current' = current + 1
    /\ pc' = "bubble_inner"
    /\ Tick
    /\ UNCHANGED <<vec, harness, alg, input, bubbleVars, shakerVars,
                   selectionVars, insertionVars, stack, writes, counters>>

BubbleSkip ==
    /\ pc = "bubble_inner"
    /\ current < last - 1 - (i - first)
    /\ ~BubbleOutOfOrder(vec, current)
    /\ current' = current + 1
    /\ Tick
    /\ UNCHANGED <<vec, harness, alg, pc, input, bubbleVars, shakerVars,
                   selectionVars, insertionVars, stack, observed>>

BubblePassEnd ==
    /\ pc = "bubble_inner"
    /\ ~(current < last - 1 - (i - first))
    /\ i' = i + 1
    /\ pc' = "bubble_outer"
    /\ Tick
    /\ UNCHANGED <<vec, harness, alg, input, current, swapped, shakerVars,
                   selectionVars, insertionVars, stack, observed>>

BubbleSort ==
    \/ BubbleEntry
    \/ BubblePassBegin
    \/ BubbleExit
    \/ BubbleSwap
    \/ BubbleDraw
    \/ BubbleSkip
    \/ BubblePassEnd

\* ------------------------------------------------------------- shaker_sort
\* the outer loop tested with != instead of <
ShakerContinueNotEqual(l, r) == l # r

\* the outer loop tested with <= instead of <
ShakerContinueInclusive(l, r) == l <= r

ShakerContinue(l, r) == l < r

ShakerEntry ==
    /\ bench = "running" /\ alg = "shaker" /\ pc = "entry"
    /\ left_border' = first
    /\ right_border' = last
    /\ pc' = "shaker_outer"
    /\ Tick
    /\ UNCHANGED <<vec, harness, alg, input, observed, current, bubbleVars,
                   selectionVars, insertionVars, stack>>

ShakerRound ==
    /\ pc = "shaker_outer"
    /\ ShakerContinue(left_border, right_border)
    /\ current' = left_border
    /\ pc' = "shaker_fwd"
    /\ Tick
    /\ UNCHANGED <<vec, harness, alg, input, observed, bubbleVars, shakerVars,
                   selectionVars, insertionVars, stack>>

ShakerExit ==
    /\ pc = "shaker_outer"
    /\ ~ShakerContinue(left_border, right_border)
    /\ pc' = "done"
    /\ Tick
    /\ UNCHANGED <<vec, harness, alg, input, locals, observed>>

\* an exchange whose draw_array call is missing
ShakerFwdSwapUndrawn ==
    /\ pc = "shaker_fwd"
    /\ current < right_border - 1
    /\ vec[current] > vec[current + 1]
    /\ vec' = Swap(vec, current, current + 1)
    /\ Wrote
    /\ current' = current + 1
    /\ Tick
    /\ UNCHANGED <<harness, alg, pc, input, bubbleVars, shakerVars,
                   selectionVars, insertionVars, stack, notified, range,
                   counters>>

ShakerFwdSwap ==
    /\ pc = "shaker_fwd"
    /\ current < right_border - 1
    /\ vec[current] > vec[current + 1]
    /\ vec' = Swap(vec, current, current + 1)
    /\ Wrote
    /\ pc' = "shaker_fwd_draw"
    /\ Tick
    /\ UNCHANGED <<harness, alg, input, locals, notified, range, counters>>

ShakerFwdDraw ==
    /\ bench = "running" /\ pc = "shaker_fwd_draw"
    /\ Notify(first, last)
    /\ current' = current + 1
    /\ pc' = "shaker_fwd"
    /\ Tick
    /\ UNCHANGED <<vec, harness, alg, input, bubbleVars, shakerVars,
                   selectionVars, insertionVars, stack, writes, counters>>

ShakerFwdSkip ==
    /\ pc = "shaker_fwd"
    /\ current < right_border - 1
    /\ ~(vec[current] > vec[current + 1])
    /\ current' = current + 1
    /\ Tick
    /\ UNCHANGED <<vec, harness, alg, pc, input, bubbleVars, shakerVars,
                   selectionVars, insertionVars, stack, observed>>

\* the backward loop started at the old right_border
ShakerFwdEndWrongStart ==
    /\ pc = "shaker_fwd"
    /\ ~(current < right_border - 1)
    /\ right_border' = right_border - 1
    /\ current' = right_border
    /\ pc' = "shaker_bwd"
    /\ Tick
    /\ UNCHANGED <<vec, harness, alg, input, left_border, bubbleVars,
                   selectionVars, insertionVars, stack, observed>>

\* the forward loop ends: --right_border, and the backward loop starts at
\* right_border - 1
ShakerFwdEnd ==
    /\ pc = "shaker_fwd"
    /\ ~(current < right_border - 1)
    /\ right_border' = right_border - 1
    /\ current' = (right_border - 1) - 1
    /\ pc' = "shaker_bwd"
    /\ Tick
    /\ UNCHANGED <<vec, harness, alg, input, left_border, bubbleVars,
                   selectionVars, insertionVars, stack, observed>>

ShakerBwdSwap ==
    /\ pc = "shaker_bwd"
    /\ current > left_border
    /\ vec[current] < vec[current - 1]
    /\ vec' = Swap(vec, current, current - 1)
    /\ Wrote
    /\ pc' = "shaker_bwd_draw"
    /\ Tick
    /\ UNCHANGED <<harness, alg, input, locals, notified, range, counters>>

ShakerBwdDraw ==
    /\ bench = "running" /\ pc = "shaker_bwd_draw"
    /\ Notify(first, last)
    /\ current' = current - 1
    /\ pc' = "shaker_bwd"
    /\ Tick
    /\ UNCHANGED <<vec, harness, alg, input, bubbleVars, shakerVars,
                   selectionVars, insertionVars, stack, writes, counters>>

ShakerBwdSkip ==
    /\ pc = "shaker_bwd"
    /\ current > left_border
    /\ ~(vec[current] < vec[current - 1])
    /\ current' = current - 1
    /\ Tick
    /\ UNCHANGED <<vec, harness, alg, pc, input, bubbleVars, shakerVars,
                   selectionVars, insertionVars, stack, observed>>

ShakerBwdEnd ==
    /\ pc = "shaker_bwd"
    /\ ~(current > left_border)
    /\ left_border' = left_border + 1
    /\ pc' = "shaker_outer"
    /\ Tick
    /\ UNCHANGED <<vec, harness, alg, input, current, right_border, bubbleVars,
                   selectionVars, insertionVars, stack, observed>>

ShakerSort ==
    \/ ShakerEntry
    \/ ShakerRound
    \/ ShakerExit
    \/ ShakerFwdSwap
    \/ ShakerFwdDraw
    \/ ShakerFwdSkip
    \/ ShakerFwdEnd
    \/ ShakerBwdSwap
    \/ ShakerBwdDraw
    \/ ShakerBwdSkip
    \/ ShakerBwdEnd

\* ---------------------------------------------------------- selection_sort
\* the outer loop tested with != instead of <
SelectionContinueNotEqual(fu) == fu # last

SelectionContinue(fu) == fu < last

\* the exchange made without the test
SelectionAlwaysSwap(sm, fu) == TRUE

SelectionNeedsSwap(sm, fu) == sm # fu

SelectionEntry ==
    /\ bench = "running" /\ alg = "selection" /\ pc = "entry"
    /\ first_unsorted' = first
    /\ pc' = "sel_outer"
    /\ Tick
    /\ UNCHANGED <<vec, harness, alg, input, observed, current, smallest,
                   bubbleVars, shakerVars, insertionVars, stack>>

SelectionScanBegin ==
    /\ pc = "sel_outer"
    /\ SelectionContinue(first_unsorted)
    /\ smallest' = first_unsorted
    /\ current' = first_unsorted + 1
    /\ pc' = "sel_scan"
    /\ Tick
    /\ UNCHANGED <<vec, harness, alg, input, observed, first_unsorted,
                   bubbleVars, shakerVars, insertionVars, stack>>

SelectionExit ==
    /\ pc = "sel_outer"
    /\ ~SelectionContinue(first_unsorted)
    /\ pc' = "done"
    /\ Tick
    /\ UNCHANGED <<vec, harness, alg, input, locals, observed>>

\* a new candidate taken without a draw_array call
SelectionCandidateSilent ==
    /\ pc = "sel_scan"
    /\ current # last
    /\ vec[current] < vec[smallest]
    /\ smallest' = current
    /\ current' = current + 1
    /\ Tick
    /\ UNCHANGED <<vec, harness, alg, pc, input, observed, first_unsorted,
                   bubbleVars, shakerVars, insertionVars, stack>>

SelectionCandidate ==
    /\ pc = "sel_scan"
    /\ current # last
    /\ vec[current] < vec[smallest]
    /\ smallest' = current
    /\ pc' = "sel_cand_draw"
    /\ Tick
    /\ UNCHANGED <<vec, harness, alg, input, observed, current, first_unsorted,
                   bubbleVars, shakerVars, insertionVars, stack>>

SelectionCandidateDraw ==
    /\ bench = "running" /\ pc = "sel_cand_draw"
    /\ Notify(first, last)
    /\ candidates' = candidates + 1
    /\ current' = current + 1
    /\ pc' = "sel_scan"
    /\ Tick
    /\ UNCHANGED <<vec, harness, alg, input, bubbleVars, shakerVars,
                   selectionVars, insertionVars, stack, writes, passes,
                   passSwaps>>

SelectionScanSkip ==
    /\ pc = "sel_scan"
    /\ current # last
    /\ ~(vec[current] < vec[smallest])
    /\ current' = current + 1
    /\ Tick
    /\ UNCHANGED <<vec, harness, alg, pc, input, bubbleVars, shakerVars,
                   selectionVars, insertionVars, stack, observed>>

SelectionScanEnd ==
    /\ pc = "sel_scan"
    /\ current = last
    /\ pc' = "sel_place"
    /\ Tick
    /\ UNCHANGED <<vec, harness, alg, input, locals, observed>>

SelectionPlace ==
    /\ pc = "sel_place"
    /\ SelectionNeedsSwap(smallest, first_unsorted)
    /\ vec' = Swap(vec, smallest, first_unsorted)
    /\ Wrote
    /\ pc' = "sel_place_draw"
    /\ Tick
    /\ UNCHANGED <<harness, alg, input, locals, notified, range, counters>>

SelectionPlaceDraw ==
    /\ bench = "running" /\ pc = "sel_place_draw"
    /\ Notify(first, last)
    /\ first_unsorted' = first_unsorted + 1
    /\ pc' = "sel_outer"
    /\ Tick
    /\ UNCHANGED <<vec, harness, alg, input, current, smallest, bubbleVars,
                   shakerVars, insertionVars, stack, writes, counters>>

SelectionInPlace ==
    /\ pc = "sel_place"
    /\ ~SelectionNeedsSwap(smallest, first_unsorted)
    /\ first_unsorted' = first_unsorted + 1
    /\ pc' = "sel_outer"
    /\ Tick
    /\ UNCHANGED <<vec, harness, alg, input, current, smallest, bubbleVars,
                   shakerVars, insertionVars, stack, observed>>

SelectionSort ==
    \/ SelectionEntry
    \/ SelectionScanBegin
    \/ SelectionExit
    \/ SelectionCandidate
    \/ SelectionCandidateDraw
    \/ SelectionScanSkip
    \/ SelectionScanEnd
    \/ SelectionPlace
    \/ SelectionPlaceDraw
    \/ SelectionInPlace

\* ---------------------------------------------------------- insertion_sort
\* the shift loop stopping one slot short of first
InsertionMustShiftOffByOne(v, ip, val) == ip > first + 1 /\ v[ip - 1] > val

\* inserted_pos > first && *(inserted_pos - 1) > current_val
InsertionMustShift(v, ip, val) == ip > first /\ v[ip - 1] > val

InsertionEntry ==
    /\ bench = "running" /\ alg = "insertion" /\ pc = "entry"
    /\ index' = first + 1
    /\ pc' = "ins_outer"
    /\ Tick
    /\ UNCHANGED <<vec, harness, alg, input, observed, current, inserted_pos,
                   current_val, bubbleVars, shakerVars, selectionVars, stack>>

InsertionTake ==
    /\ pc = "ins_outer"
    /\ index < last
    /\ current_val' = vec[index]
    /\ inserted_pos' = index
    /\ pc' = "ins_shift"
    /\ Tick
    /\ UNCHANGED <<vec, harness, alg, input, observed, current, index,
                   bubbleVars, shakerVars, selectionVars, stack>>

InsertionExit ==
    /\ pc = "ins_outer"
    /\ ~(index < last)
    /\ pc' = "done"
    /\ Tick
    /\ UNCHANGED <<vec, harness, alg, input, locals, observed>>

\* *inserted_pos = *(inserted_pos - 1); --inserted_pos;
InsertionShift ==
    /\ pc = "ins_shift"
    /\ InsertionMustShift(vec, inserted_pos, current_val)
    /\ vec' = [vec EXCEPT ![inserted_pos] = vec[inserted_pos - 1]]
    /\ inserted_pos' = inserted_pos - 1
    /\ Wrote
    /\ pc' = "ins_shift_draw"
    /\ Tick
    /\ UNCHANGED <<harness, alg, input, current, index, current_val,
                   bubbleVars, shakerVars, selectionVars, stack, notified,
                   range, counters>>

InsertionShiftDraw ==
    /\ bench = "running" /\ pc = "ins_shift_draw"
    /\ Notify(first, last)
    /\ pc' = "ins_shift"
    /\ Tick
    /\ UNCHANGED <<vec, harness, alg, input, locals, writes, counters>>

\* the held value never written back
InsertionPlaceLost ==
    /\ pc = "ins_shift"
    /\ ~InsertionMustShift(vec, inserted_pos, current_val)
    /\ Wrote
    /\ pc' = "ins_place_draw"
    /\ Tick
    /\ UNCHANGED <<vec, harness, alg, input, locals, notified, range, counters>>

\* *inserted_pos = current_val;
InsertionPlace ==
    /\ pc = "ins_shift"
    /\ ~InsertionMustShift(vec, inserted_pos, current_val)
    /\ vec' = [vec EXCEPT ![inserted_pos] = current_val]
    /\ Wrote
    /\ pc' = "ins_place_draw"
    /\ Tick
    /\ UNCHANGED <<harness, alg, input, locals, notified, range, counters>>

InsertionPlaceDraw ==
    /\ bench = "running" /\ pc = "ins_place_draw"
    /\ Notify(first, last)
    /\ index' = index + 1
    /\ pc' = "ins_outer"
    /\ Tick
    /\ UNCHANGED <<vec, harness, alg, input, current, inserted_pos,
                   current_val, bubbleVars, shakerVars, selectionVars, stack,
                   writes, counters>>

InsertionSort ==
    \/ InsertionEntry
    \/ InsertionTake
    \/ InsertionExit
    \/ InsertionShift
    \/ InsertionShiftDraw
    \/ InsertionPlace
    \/ InsertionPlaceDraw

\* --------------------------------------------------------------- quicksort
\* one activation of quicksort(first, last, shader, window, OG_first, OG_last);
\* resume is where it continues once the call it made has returned
Frame(f, l, ogf, ogl) ==
    [first |-> f, last |-> l, OG_first |-> ogf, OG_last |-> ogl,
     pivot_value |-> 0, pivot_pos |-> f, j |-> f, resume |-> "none"]

Top == stack[Len(stack)]

SetTop(fr) == [stack EXCEPT ![Len(stack)] = fr]

\* if (first >= last) {return;}
QuicksortBaseCase(f, l) == f >= l

\* if (*j < pivot_value)
QuicksortBelowPivot(x, p) == x < p

\* the range being partitioned handed to draw_array
QuicksortDrawSubRange(fr) == <<fr.first, fr.last>>

\* the range quicksort hands to draw_array
QuicksortDrawRange(fr) == <<fr.OG_first, fr.OG_last>>

\* the arguments of the two recursive calls
QuicksortLeftCall(fr) == Frame(fr.first, fr.pivot_pos, fr.OG_first, fr.OG_last)

QuicksortRightCall(fr) == Frame(fr.pivot_pos + 1, fr.last, fr.OG_first, fr.OG_last)

quicksortUnchanged == <<harness, alg, input, current, bubbleVars, shakerVars,
                        selectionVars, insertionVars>>

\* the lambda's call quicksort(vec.begin(), vec.end(), ..., vec.begin(), vec.end())
QuicksortEntry ==
    /\ bench = "running" /\ alg = "quicksort" /\ pc = "entry"
    /\ stack' = <<Frame(first, last, first, last)>>
    /\ pc' = "qs_entry"
    /\ Tick
    /\ UNCHANGED <<vec, quicksortUnchanged, observed>>

\* return from the innermost activation
QuicksortPop ==
    /\ stack' = SubSeq(stack, 1, Len(stack) - 1)
    /\ pc' = IF Len(stack) = 1 THEN "done" ELSE stack[Len(stack) - 1].resume

QuicksortReturnBase ==
    /\ pc = "qs_entry"
    /\ QuicksortBaseCase(Top.first, Top.last)
    /\ QuicksortPop
    /\ Tick
    /\ UNCHANGED <<vec, quicksortUnchanged, observed>>

QuicksortPartitionBegin ==
    /\ pc = "qs_entry"
    /\ ~QuicksortBaseCase(Top.first, Top.last)
    /\ stack' = SetTop([Top EXCEPT !.pivot_value = vec[Top.last - 1],
                                   !.pivot_pos = Top.first,
                                   !.j = Top.first])
    /\ pc' = "qs_scan"
    /\ Tick
    /\ UNCHANGED <<vec, quicksortUnchanged, observed>>

\* std::swap(*pivot_pos, *j); ++pivot_pos;
QuicksortScanSwap ==
    /\ pc = "qs_scan"
    /\ Top.j # Top.last - 1
    /\ QuicksortBelowPivot(vec[Top.j], Top.pivot_value)
    /\ vec' = Swap(vec, Top.pivot_pos, Top.j)
    /\ stack' = SetTop([Top EXCEPT !.pivot_pos = Top.pivot_pos + 1])
    /\ Wrote
    /\ pc' = "qs_scan_draw"
    /\ Tick
    /\ UNCHANGED <<quicksortUnchanged, notified, range, counters>>

QuicksortScanDraw ==
    /\ bench = "running" /\ pc = "qs_scan_draw"
    /\ Notify(QuicksortDrawRange(Top)[1], QuicksortDrawRange(Top)[2])
    /\ stack' = SetTop([Top EXCEPT !.j = Top.j + 1])
    /\ pc' = "qs_scan"
    /\ Tick
    /\ UNCHANGED <<vec, quicksortUnchanged, writes, counters>>

QuicksortScanSkip ==
    /\ pc = "qs_scan"
    /\ Top.j # Top.last - 1
    /\ ~QuicksortBelowPivot(vec[Top.j], Top.pivot_value)
    /\ stack' = SetTop([Top EXCEPT !.j = Top.j + 1])
    /\ Tick
    /\ UNCHANGED <<vec, pc, quicksortUnchanged, observed>>

\* the scan is over: std::swap(*pivot_pos, *(last - 1));
QuicksortPlacePivot ==
    /\ pc = "qs_scan"
    /\ Top.j = Top.last - 1
    /\ vec' = Swap(vec, Top.pivot_pos, Top.last - 1)
    /\ Wrote
    /\ pc' = "qs_place_draw"
    /\ Tick
    /\ UNCHANGED <<quicksortUnchanged, stack, notified, range, counters>>

QuicksortPlaceDraw ==
    /\ bench = "running" /\ pc = "qs_place_draw"
    /\ Notify(QuicksortDrawRange(Top)[1], QuicksortDrawRange(Top)[2])
    /\ pc' = "qs_left"
    /\ Tick
    /\ UNCHANGED <<vec, quicksortUnchanged, stack, writes, counters>>

QuicksortCallLeft ==
    /\ pc = "qs_left"
    /\ stack' = Append(SetTop([Top EXCEPT !.resume = "qs_right"]),
                       QuicksortLeftCall(Top))
    /\ pc' = "qs_entry"
    /\ Tick
    /\ UNCHANGED <<vec, quicksortUnchanged, observed>>

QuicksortCallRight ==
    /\ pc = "qs_right"
    /\ stack' = Append(SetTop([Top EXCEPT !.resume = "qs_return"]),
                       QuicksortRightCall(Top))
    /\ pc' = "qs_entry"
    /\ Tick
    /\ UNCHANGED <<vec, quicksortUnchanged, observed>>

QuicksortReturn ==
    /\ pc = "qs_return"
    /\ QuicksortPop
    /\ Tick
    /\ UNCHANGED <<vec, quicksortUnchanged, observed>>

Quicksort ==
    \/ QuicksortEntry
    \/ QuicksortReturnBase
    \/ QuicksortPartitionBegin
    \/ QuicksortScanSwap
    \/ QuicksortScanDraw
    \/ QuicksortScanSkip
    \/ QuicksortPlacePivot
    \/ QuicksortPlaceDraw
    \/ QuicksortCallLeft
    \/ QuicksortCallRight
    \/ QuicksortReturn

\* -------------------------------------------------------------------- spec
Next ==
    \/ Stage
    \/ BenchmarkInvoke
    \/ BenchmarkReturn
    \/ ObserverRaises
    \/ BubbleSort
    \/ ShakerSort
    \/ SelectionSort
    \/ InsertionSort
    \/ Quicksort

Spec == Init /\ [][Next]_vars

\* ------------------------------------------- an observer that returns
\* the program with a draw_array that always returns
NextReturning ==
    \/ Stage
    \/ BenchmarkInvoke
    \/ BenchmarkReturn
    \/ BubbleSort
    \/ ShakerSort
    \/ SelectionSort
    \/ InsertionSort
    \/ Quicksort

\* one thread runs the program: while a next statement exists it is executed
FairSpec == Init /\ [][NextReturning]_vars /\ WF_vars(NextReturning)

\* ----------------------------------------- a caller other than main
\* the ranges a caller hands to an algorithm: the whole vector, as main does,
\* or two positions of the vector in the wrong order
CallRanges(v) ==
    {<<0, Size(v)>>} \cup
    {r \in (0..Size(v)) \X (0..Size(v)) : r[1] > r[2]}

\* a stage whose lambda passes any of those ranges, over the vector as the
\* stage before left it
StageAnyRange ==
    /\ bench \in {"idle", "returned"}
    /\ stage < LastStage
    /\ stage' = stage + 1
    /\ vec' = vec
    /\ input' = vec
    /\ \E r \in CallRanges(vec) : first' = r[1] /\ last' = r[2]
    /\ bench' = "timing"
    /\ calls' = 0
    /\ result' = None
    /\ elapsed' = 0
    /\ alg' = AlgOf(stage + 1)
    /\ pc' = "idle"
    /\ UNCHANGED <<locals, observed>>

NextContract ==
    \/ StageAnyRange
    \/ BenchmarkInvoke
    \/ BenchmarkReturn
    \/ ObserverRaises
    \/ BubbleSort
    \/ ShakerSort
    \/ SelectionSort
    \/ InsertionSort
    \/ Quicksort

SpecContract == Init /\ [][NextContract]_vars

\* ------------------------------------------------------------------ claims
\* the algorithm has returned to the lambda and benchmark has not yet
\* stopped the clock
Returned == bench = "running" /\ pc = "done"

Aborted == bench = "propagated" /\ pc = "aborted"

HasDuplicates(v) == \E p, q \in DOMAIN v : p # q /\ v[p] = v[q]

\* C1: when any of the five algorithms returns, no adjacent pair of the
\* range is out of order.
C1_SortedOnReturn == Returned => IsSorted(vec)

C1_Witness ==
    /\ Returned
    /\ alg = "shaker"
    /\ ~IsSorted(input)
    /\ HasDuplicates(input)
    /\ Size(input) >= 3
    /\ IsSorted(vec)

\* C2: when any of the five algorithms returns, the sequence has the length
\* and the multiset of values of the input.
C2_PermutationOnReturn == Returned => IsPerm(vec, input)

C2_Witness ==
    /\ Returned
    /\ alg = "insertion"
    /\ ~IsSorted(input)
    /\ HasDuplicates(input)
    /\ vec # input
    /\ IsPerm(vec, input)

\* the sequence with the value insertion_sort holds aside written to its hole
Filled == [vec EXCEPT ![inserted_pos] = current_val]

\* C3 as claimed: at every draw_array call, and after an observer has
\* aborted the sort at one, the sequence is a permutation of the input.
C3_SnapshotIsPermutation ==
    (AtNotification \/ Aborted) => IsPerm(vec, input)

\* C3 as amended: the snapshot is a permutation of the input at every
\* notification of bubble, shaker, selection and quick sort and at
\* insertion_sort's notification after the final placement; at
\* insertion_sort's notifications during shifting the slot inserted_pos
\* repeats its right neighbour and the held value is missing, and only the
\* sequence with the held value written to inserted_pos is a permutation.
C3_SnapshotIsPermutationButForHeldValue ==
    /\ (AtNotification \/ Aborted) /\ alg # "insertion" => IsPerm(vec, input)
    /\ AtNotification /\ pc = "ins_place_draw" => IsPerm(vec, input)
    /\ (AtNotification \/ Aborted) /\ alg = "insertion" => IsPerm(Filled, input)
    /\ AtNotification /\ pc = "ins_shift_draw" =>
          /\ vec[inserted_pos] = vec[inserted_pos + 1]
          /\ current_val < vec[inserted_pos]
          /\ ~IsPerm(vec, input)

C3_Witness ==
    /\ AtNotification
    /\ pc = "ins_shift_draw"
    /\ notified > 0
    /\ ~IsPerm(vec, input)
    /\ IsPerm(Filled, input)

\* a step that writes the sequence
WriteStep == writes' = writes + 1

\* C4 as claimed: every write is shown by exactly one draw_array call over
\* the full range before the next write, and before the return.
C4_ExactlyOneNotificationBetweenWrites ==
    /\ [](Returned => unseen = 0)
    /\ [](notified > 0 => range = <<first, last>>)
    /\ [][WriteStep => unseen = 0 /\ (writes > 0 => sinceWrite = 1)]_vars

\* C4 as amended: every write is followed by a draw_array call over the full
\* range before the next write and before the return, so no two writes go
\* unshown; that call is the only one between two writes in bubble, shaker,
\* insertion and quick sort, while selection_sort makes one more for every
\* new candidate minimum it finds before its next exchange.
C4_EveryWriteNotifiedBeforeNext ==
    /\ [](unseen \in {0, 1})
    /\ [](Returned => unseen = 0)
    /\ [](notified > 0 => range = <<first, last>>)
    /\ [](notified = (writes - unseen) + candidates)
    /\ [](alg # "selection" => candidates = 0)
    /\ [][WriteStep => unseen = 0 /\ (writes > 0 => sinceWrite >= 1)]_vars
    /\ [][WriteStep /\ alg # "selection" => (writes > 0 => sinceWrite = 1)]_vars

C4_Witness ==
    /\ alg = "selection"
    /\ pc = "sel_place_draw"
    /\ writes >= 2
    /\ unseen = 1
    /\ candidates >= 2

\* C5: every draw_array call quicksort makes, at any depth, is over the range
\* of the top-level call, and every activation carries that range unchanged
\* as OG_first and OG_last.
C5_QuicksortNotifiesFullRange ==
    alg = "quicksort" =>
        /\ notified > 0 => range = <<first, last>>
        /\ \A k \in DOMAIN stack :
              stack[k].OG_first = first /\ stack[k].OG_last = last

C5_Witness ==
    /\ alg = "quicksort"
    /\ pc = "qs_left"
    /\ Len(stack) >= 2
    /\ <<Top.first, Top.last>> # <<first, last>>
    /\ Top.last - Top.first >= 2
    /\ range = <<first, last>>

\* C6 as claimed: an activation of quicksort on a range of length 0 or 1 gets
\* no further than its entry test (no exchange, no draw_array call, no
\* recursive call), and sorting [2,1] makes one exchange, the pivot's.
C6_QuicksortTrivialRangeReturnsAtOnce ==
    /\ \A k \in DOMAIN stack :
          stack[k].last - stack[k].first <= 1 =>
              k = Len(stack) /\ pc = "qs_entry"
    /\ Returned /\ alg = "quicksort" /\ input = FromSeq(<<2, 1>>) =>
          writes = 1 /\ notified = 1

\* C7: each algorithm, called on a non-decreasing sequence, returns with
\* every position holding the value it held at the call.
C7_SortedInputUnchanged == Returned /\ IsSorted(input) => vec = input

C7_Witness ==
    /\ Returned
    /\ alg = "quicksort"
    /\ stage = LastStage
    /\ IsSorted(input)
    /\ ~HasDuplicates(input)
    /\ Size(input) >= 3
    /\ vec = input

\* C8: bubble_sort begins a further pass only if the pass before it made an
\* exchange, and on a non-decreasing input it makes at most one pass, no
\* exchange and no draw_array call.
C8_BubbleEarlyExit ==
    /\ [][passes' = passes + 1 /\ passes > 0 => passSwaps > 0]_vars
    /\ [](alg = "bubble" /\ IsSorted(input) =>
              passes <= 1 /\ writes = 0 /\ notified = 0)
    /\ [](alg = "bubble" /\ Returned => passSwaps = 0)

C8_Witness ==
    /\ Returned
    /\ alg = "bubble"
    /\ writes > 0
    /\ passSwaps = 0
    /\ passes >= 2
    /\ passes < last - 1

\* position of the first occurrence of the minimum of v over [from, size)
FirstMinPos(v, from) ==
    CHOOSE p \in from..(Size(v) - 1) :
        /\ \A q \in from..(Size(v) - 1) : v[p] <= v[q]
        /\ \A q \in from..(p - 1) : v[q] > v[p]

\* C9: selection_sort's scan ends on the first occurrence of the minimum of
\* the unsorted suffix; the outer position then takes exactly one exchange if
\* that is another position and none otherwise, no exchange happens anywhere
\* else, there are at most n - 1 of them, and [5,3,4,1,2] takes 4 and ends
\* as [1,2,3,4,5].
C9_SelectionExchanges ==
    /\ [](alg = "selection" /\ pc = "sel_place" =>
              smallest = FirstMinPos(vec, first_unsorted))
    /\ [][alg = "selection" /\ pc = "sel_place" =>
              writes' - writes =
                  IF FirstMinPos(vec, first_unsorted) # first_unsorted
                  THEN 1 ELSE 0]_vars
    /\ [][alg = "selection" /\ pc # "sel_place" => writes' <= writes]_vars
    /\ [](alg = "selection" /\ pc = "sel_outer" => writes <= first_unsorted)
    /\ [](alg = "selection" /\ last > 0 => writes <= last - 1)
    /\ [](alg = "selection" /\ Returned /\ input = FromSeq(<<5, 3, 4, 1, 2>>) =>
              writes = 4 /\ vec = FromSeq(<<1, 2, 3, 4, 5>>))

C9_Witness ==
    /\ Returned
    /\ alg = "selection"
    /\ input = FromSeq(<<5, 3, 4, 1, 2>>)
    /\ writes = 4
    /\ vec = FromSeq(<<1, 2, 3, 4, 5>>)

\* C10: benchmark calls its callable once: when the callable returns,
\* benchmark returns the elapsed time after that one call; when the callable
\* raises, the failure leaves benchmark after that one call, no result
\* exists and nothing is called again.
C10_BenchmarkCallsOnce ==
    /\ [](calls <= 1)
    /\ [](bench \in {"running", "returned", "propagated"} => calls = 1)
    /\ [](bench = "returned" => result # None /\ result = elapsed)
    /\ [](bench = "propagated" => result = None)
    /\ [][bench = "propagated" =>
              bench' = "propagated" /\ calls' = calls /\ result' = None]_vars

C10_Witness ==
    /\ bench = "propagated"
    /\ pc = "aborted"
    /\ calls = 1
    /\ result = None
    /\ notified > 0

\* the positions the statement at pc dereferences (reads or writes through
\* an iterator) when it executes next; draw_array reads the range it is given
Derefs ==
    CASE pc = "bubble_inner" ->
            IF current < last - 1 - (i - first)
            THEN {current, current + 1} ELSE {}
      [] pc = "shaker_fwd" ->
            IF current < right_border - 1
            THEN {current, current + 1} ELSE {}
      [] pc = "shaker_bwd" ->
            IF current > left_border
            THEN {current, current - 1} ELSE {}
      [] pc = "sel_scan" ->
            IF current # last THEN {current, smallest} ELSE {}
      [] pc = "sel_place" ->
            IF smallest # first_unsorted
            THEN {smallest, first_unsorted} ELSE {}
      [] pc = "ins_outer" ->
            IF index < last THEN {index} ELSE {}
      [] pc = "ins_shift" ->
            {inserted_pos} \cup
            (IF inserted_pos > first THEN {inserted_pos - 1} ELSE {})
      [] pc = "qs_entry" ->
            IF Top.first >= Top.last THEN {} ELSE {Top.last - 1}
      [] pc = "qs_scan" ->
            IF Top.j # Top.last - 1
            THEN {Top.j} \cup
                 (IF Top.j \in DOMAIN vec /\ vec[Top.j] < Top.pivot_value
                  THEN {Top.pivot_pos} ELSE {})
            ELSE {Top.pivot_pos, Top.last - 1}
      [] pc \in {"qs_scan_draw", "qs_place_draw"} ->
            QuicksortDrawRange(Top)[1]..(QuicksortDrawRange(Top)[2] - 1)
      [] pc \in DrawPcs \ {"qs_scan_draw", "qs_place_draw"} ->
            first..(last - 1)
      [] OTHER -> {}

\* C11: called with first <= last, no algorithm dereferences a position
\* outside [first, last), and quicksort no position outside the sub-range of
\* the activation that dereferences it.
C11_DereferencesInRange ==
    bench = "running" /\ first <= last =>
        /\ \A p \in Derefs : first <= p /\ p < last
        /\ alg = "quicksort" /\ pc \in {"qs_entry", "qs_scan"} =>
              \A p \in Derefs : Top.first <= p /\ p < Top.last

C11_Witness ==
    /\ bench = "running"
    /\ alg = "shaker"
    /\ pc = "shaker_bwd"
    /\ current = right_border - 1
    /\ current - 1 = left_border
    /\ left_border = first
    /\ right_border = last - 1
    /\ Derefs = {current, current - 1}

\* C12 as claimed: a call with first > last never completes normally and
\* leaves the sequence unchanged.
C12_ReversedRangeRejected ==
    first > last /\ bench = "running" => pc # "done" /\ vec = input

\* the positions of an algorithm before its first loop test and after return
TrivialPcs == {"entry", "bubble_outer", "shaker_outer", "sel_outer",
               "ins_outer", "qs_entry", "done"}

\* C12 as amended: called with first > last, each of the five algorithms
\* finds its first loop test (quicksort: its base case) false and returns
\* normally, having made no read, write, notification or recursive call; the
\* sequence is unchanged and nothing is reported.
C12_ReversedRangeIsSilentNoOp ==
    /\ [](first > last /\ bench = "running" =>
              /\ vec = input
              /\ writes = 0
              /\ notified = 0
              /\ Derefs = {}
              /\ Len(stack) <= 1
              /\ pc \in TrivialPcs)
    /\ [][first > last /\ bench = "running" /\ pc \notin {"entry", "done"} =>
              pc' = "done"]_vars
    /\ [](first > last => bench # "propagated")

C12_Witness ==
    /\ first > last
    /\ Returned
    /\ alg = "insertion"
    /\ ~IsSorted(vec)
    /\ Size(vec) >= 3
    /\ vec = input

\* length of the sub-range of the k-th activation of quicksort
FrameLen(st, k) == st[k].last - st[k].first

\* C13: with an observer that returns, every call of an algorithm returns;
\* a bubble pass begins below last and ends with i advanced, a shaker round
\* begins with left_border < right_border and moves each border one step
\* towards the other, the selection and insertion loops advance their
\* position by one, and every recursive quicksort call is on a sub-range
\* strictly shorter than its caller's.
C13_EveryCallReturns ==
    /\ (bench = "running") ~> Returned
    /\ [][pc = "bubble_outer" /\ pc' = "bubble_inner" => i < last]_vars
    /\ [][pc = "bubble_inner" /\ pc' = "bubble_outer" => i' = i + 1]_vars
    /\ [][pc = "shaker_outer" /\ pc' = "shaker_fwd" =>
              left_border < right_border]_vars
    /\ [][pc = "shaker_fwd" /\ pc' = "shaker_bwd" =>
              right_border' = right_border - 1 /\ left_border' = left_border]_vars
    /\ [][pc = "shaker_bwd" /\ pc' = "shaker_outer" =>
              left_border' = left_border + 1 /\ right_border' = right_border]_vars
    /\ [][(pc = "sel_place" \/ pc = "sel_place_draw") /\ pc' = "sel_outer" =>
              (first_unsorted' = first_unsorted + 1)]_vars
    /\ [][pc = "ins_place_draw" /\ pc' = "ins_outer" =>
              (index' = index + 1)]_vars
    /\ [][Len(stack') = Len(stack) + 1 /\ Len(stack) >= 1 =>
              FrameLen(stack', Len(stack')) < FrameLen(stack, Len(stack))]_vars

C13_Witness ==
    /\ Returned
    /\ alg = "shaker"
    /\ last % 2 = 1
    /\ last >= 3
    /\ writes >= 2
    /\ left_border > right_border

\* shaker_sort has set its borders and has not been left by a failure
ShakerRunning == alg = "shaker" /\ bench = "running" /\ pc # "entry"

\* C14 as claimed: throughout shaker_sort left_border <= right_border, and
\* when the outer loop has exited left_border = right_border.
C14_ShakerBordersMeet ==
    ShakerRunning =>
        /\ left_border <= right_border
        /\ pc = "done" => left_border = right_border

\* C14 as amended: shaker_sort's outer loop exits when left_border >=
\* right_border.  Throughout the run left_border <= right_border + 1; the
\* borders are apart during the forward pass and not crossed during the
\* backward pass; at the exit left_border = right_border when the length is
\* even and left_border = right_border + 1 (crossed by one) when it is odd.
C14_ShakerBordersCrossByAtMostOne ==
    ShakerRunning =>
        /\ left_border <= right_border + 1
        /\ pc \in {"shaker_fwd", "shaker_fwd_draw"} => left_border < right_border
        /\ pc \in {"shaker_bwd", "shaker_bwd_draw"} => left_border <= right_border
        /\ pc = "done" /\ (last - first) % 2 = 0 => left_border = right_border
        /\ pc = "done" /\ (last - first) % 2 = 1 => left_border = right_border + 1

C14_Witness ==
    /\ ShakerRunning
    /\ pc = "shaker_outer"
    /\ last - first >= 3
    /\ left_border = right_border + 1
    /\ ~ShakerContinue(left_border, right_border)

\* selection_sort's scan is at an element strictly smaller than the candidate
FoundSmaller ==
    /\ alg = "selection"
    /\ pc = "sel_scan"
    /\ current # last
    /\ vec[current] < vec[smallest]

\* C15: selection_sort calls draw_array once, and next, each time its scan
\* finds an element strictly smaller than the candidate, with the sequence as
\* the previous call showed it, and once after each placing exchange; it
\* calls draw_array nowhere else, so the calls number the candidates found
\* plus the exchanges: 5 + 4 for [5,3,4,1,2].
C15_SelectionNotifications ==
    /\ [][FoundSmaller =>
              pc' = "sel_cand_draw" /\ notified' = notified /\ vec' = vec]_vars
    /\ [][alg = "selection" /\ pc = "sel_scan" /\ ~FoundSmaller =>
              notified' = notified /\ pc' \in {"sel_scan", "sel_place"}]_vars
    /\ [][pc = "sel_cand_draw" /\ bench' = "running" =>
              /\ notified' = notified + 1
              /\ candidates' = candidates + 1
              /\ unseen = 0
              /\ vec' = vec
              /\ pc' = "sel_scan"]_vars
    /\ [][pc = "sel_place_draw" /\ bench' = "running" =>
              /\ notified' = notified + 1
              /\ candidates' = candidates
              /\ unseen = 1
              /\ vec' = vec]_vars
    /\ [][alg = "selection" /\ notified' = notified + 1 =>
              pc \in {"sel_cand_draw", "sel_place_draw"}]_vars
    /\ [](alg = "selection" => notified = candidates + (writes - unseen))
    /\ [](alg = "selection" /\ Returned => notified = candidates + writes)
    /\ [](alg = "selection" /\ Returned /\ input = FromSeq(<<5, 3, 4, 1, 2>>) =>
              candidates = 5 /\ writes = 4 /\ notified = 9)

C15_Witness ==
    /\ Returned
    /\ alg = "selection"
    /\ input = FromSeq(<<5, 3, 4, 1, 2>>)
    /\ candidates = 5
    /\ notified = 9

====
